---- MODULE Spec2Model ----
(***************************************************************************)
(* Escrow settlement of the Daladan platform (backend/routers/escrow.py)   *)
(* and its audit listeners (backend/audit.py), over a PostgreSQL store     *)
(* with READ COMMITTED transactions and SELECT ... FOR UPDATE row locks.   *)
(*                                                                         *)
(* Money.  A Numeric(12,2) column holds whole cents.  A Decimal computed   *)
(* in Python from a column value and a two-decimal share has four decimal  *)
(* places; it is held here as an integer count of 1/10000 ("e4 units").    *)
(* A float() of such a Decimal is injective on the modelled range (fewer   *)
(* than 15 significant digits), so a float is held as the e4 value of the  *)
(* Decimal it was converted from.                                          *)
(*                                                                         *)
(* Time.  datetime.utcnow() reads the variable clock and advances it.      *)
(* NullTime is a NULL DateTime column.                                     *)
(***************************************************************************)
EXTENDS Integers, Sequences, FiniteSets, TLC

VARIABLES
    deals,        \* table deal_groups:          deal id -> row
    escrows,      \* table escrow_transactions:  deal id -> row (NoEscrow: no row)
    accounts,     \* table users:                user id -> row
    shipments,    \* table shipments:            deal id -> row (NoShipment: no row)
    audit_logs,   \* table audit_logs, in insertion order
    tasks,        \* event-loop tasks created by the audit listeners, not yet run
    clock,        \* the value the next datetime.utcnow() returns
    pc,           \* per request handler: the statement it executes next
    req,          \* per request handler: the EscrowReleaseRequest / deal_id
    sess,         \* per request handler: its AsyncSession (identity map, locks)
    result,       \* per request handler: the HTTP outcome of its last call
    emitted,      \* per request handler: audit tasks its current call created
    calls         \* number of requests received so far

vars == <<deals, escrows, accounts, shipments, audit_logs, tasks, clock,
          pc, req, sess, result, emitted, calls>>

db == <<deals, escrows, accounts, shipments>>

\* ------------------------------------------------------------------ bounds
MaxCalls == 2
MaxAmount == 120

\* --------------------------------------------------------------- constants
NULL == "NULL"
NullTime == -1

Procs == {"p1", "p2"}
Users == {"u1", "u2", "u3", "u4"}
DealIds == {"d1", "d2"}
ReqDeals == {"d1", "d2", "d3"}
Pins == {"1234", "0000"}
Keys == {"k1"}
Amounts == {5, 438000}
Amounts2 == {4385}

PRODUCER_SHARE == 90
DRIVER_SHARE == 10

\* ------------------------------------------------------------------- rows
NoEscrow ==
    [id |-> NULL, deal_group_id |-> NULL, amount |-> 0, currency |-> NULL,
     status |-> NULL, payer_id |-> NULL, payee_id |-> NULL,
     released_by_id |-> NULL, idempotency_key |-> NULL, released_at |-> NullTime]

NoShipment == [id |-> NULL, status |-> NULL, delivered_at |-> NullTime]

EscrowId(d) == IF d = "d1" THEN "e1" ELSE "e2"

ShipmentId(d) == IF d = "d1" THEN "s1" ELSE "s2"

EscrowRow(d, amt, st, payer, payee, by, key, at) ==
    [id |-> EscrowId(d), deal_group_id |-> d, amount |-> amt, currency |-> "USD",
     status |-> st, payer_id |-> payer, payee_id |-> payee,
     released_by_id |-> by, idempotency_key |-> key, released_at |-> at]

DealRow(num, title, seller, buyer, driver) ==
    [deal_number |-> num, title |-> title, status |-> "agreed",
     seller_id |-> seller, buyer_id |-> buyer, driver_id |-> driver]

ShipmentRow(d, st, at) == [id |-> ShipmentId(d), status |-> st, delivered_at |-> at]

FullName(u) ==
    CASE u = "u1" -> "Korzinka Market"
      [] u = "u2" -> "Namangan Valley Farms"
      [] u = "u3" -> "Alisher Karimov"
      [] OTHER -> "Samarkand Agro Co."

\* ------------------------------------------------------------ PIN hashing
_hash_pin(plain_pin) == <<"bcrypt", plain_pin>>

_verify_pin(plain_pin, hashed_pin) == hashed_pin = _hash_pin(plain_pin)

\* -------------------------------------------------------- money arithmetic
\* Decimal(column value) as e4 units
ToE4(cents) == cents * 100

\* PostgreSQL numeric(12,2) assignment: round half away from zero to the cent
StoreNumeric2(e4) ==
    IF e4 >= 0 THEN (e4 + 50) \div 100 ELSE -((-e4 + 50) \div 100)

\* variant: the share rounded to the cent on its own
ProducerAmount_RoundedAlone(amount) == ToE4(StoreNumeric2(amount * PRODUCER_SHARE))

ProducerAmount(amount) == amount * PRODUCER_SHARE

\* variant: the driver share is taken from the balance
DriverAmount_Debit(amount) == 0 - amount * DRIVER_SHARE

DriverAmount(amount) == amount * DRIVER_SHARE

\* ---------------------------------------------------------------- session
\* AsyncSession of one request: in_txn is the Session's transaction (begun by
\* autobegin or by begin()); escrow, users and shipment are the identity map's
\* objects with their in-memory attribute values; dirty/escrow_dirty/
\* shipment_dirty are the objects with unflushed or flushed-uncommitted
\* changes; locks are the row locks its transaction holds.
EmptySession ==
    [in_txn |-> FALSE, deal |-> NULL, escrow |-> NoEscrow, escrow_dirty |-> FALSE,
     users |-> <<>>, dirty |-> {}, shipment |-> NoShipment, shipment_dirty |-> FALSE,
     now |-> NullTime, producer_amount |-> 0, driver_amount |-> 0, locks |-> {}]

NoRequest == [deal_id |-> NULL, pin |-> NULL, idempotency_key |-> NULL]

NoMessage == [text |-> NULL, deal_number |-> 0, title |-> NULL,
              producer_name |-> NULL, driver_name |-> NULL]

NoCredit == [user_id |-> NULL, user_name |-> NULL, role |-> NULL, amount |-> 0, percentage |-> 0]

NoBody ==
    [status |-> NULL, deal_number |-> 0, deal_title |-> NULL, escrow_id |-> NULL,
     amount |-> 0, currency |-> NULL, producer_credit |-> NoCredit,
     driver_credit |-> NoCredit, released_at |-> NullTime,
     idempotency_key |-> NULL, message |-> NoMessage]

NoResult == [code |-> 0, detail |-> NULL, body |-> NoBody]

HttpError(code, detail) == [code |-> code, detail |-> detail, body |-> NoBody]

\* ------------------------------------------------------------- initial data
\* Deal d1 is the seeded deal #901 (seed.py): seller u2, buyer u1 (the retailer,
\* the only seeded account with an escrow PIN), driver u3, one shipment, one
\* HELD escrow.  Deal d2 is a second deal in one of several persisted shapes the
\* schema admits; a NULL foreign key is the only way an account can be missing.
Scenarios == {"cross", "nodriver", "settled", "heldkey", "nopin"}

SeedAccounts ==
    [u \in Users |->
        [balance |-> 0,
         escrow_pin_hash |-> IF u \in {"u1", "u4"} THEN _hash_pin("1234") ELSE NULL]]

SeedDeals(sc) ==
    [d \in DealIds |->
        IF d = "d1" THEN DealRow(901, "Golden Apples", "u2", "u1", "u3")
        ELSE IF sc = "cross" THEN DealRow(902, "Fresh Carrots", "u3", "u4", "u2")
        ELSE IF sc = "nodriver" THEN DealRow(902, "Fresh Carrots", "u2", "u1", NULL)
        ELSE IF sc = "nopin" THEN DealRow(902, "Fresh Carrots", "u2", "u3", "u4")
        ELSE DealRow(902, "Fresh Carrots", "u2", "u1", "u3")]

SeedEscrows(sc, a1, a2) ==
    [d \in DealIds |->
        IF d = "d1" THEN EscrowRow("d1", a1, "held", "u1", "u2", NULL, NULL, NullTime)
        ELSE IF sc = "cross" THEN EscrowRow("d2", a2, "held", "u4", "u3", NULL, NULL, NullTime)
        ELSE IF sc = "settled" THEN EscrowRow("d2", a2, "funds_released", "u1", "u2", "u1", "k1", 0)
        ELSE IF sc = "heldkey" THEN EscrowRow("d2", a2, "held", "u1", "u2", NULL, "k1", NullTime)
        ELSE IF sc = "nopin" THEN EscrowRow("d2", a2, "held", "u3", "u2", NULL, NULL, NullTime)
        ELSE EscrowRow("d2", a2, "held", "u1", "u2", NULL, NULL, NullTime)]

SeedShipments(sc) ==
    [d \in DealIds |->
        IF d = "d1" THEN ShipmentRow("d1", "in_transit", NullTime)
        ELSE IF sc = "settled" THEN ShipmentRow("d2", "delivered", 0)
        ELSE IF sc = "nodriver" THEN ShipmentRow("d2", "pending", NullTime)
        ELSE NoShipment]

InitWith(sc, a1, a2) ==
        /\ deals = SeedDeals(sc)
        /\ escrows = SeedEscrows(sc, a1, a2)
        /\ accounts = SeedAccounts
        /\ shipments = SeedShipments(sc)
        /\ audit_logs = <<>>
        /\ tasks = <<>>
        /\ clock = 1
        /\ pc = [p \in Procs |-> "idle"]
        /\ req = [p \in Procs |-> NoRequest]
        /\ sess = [p \in Procs |-> EmptySession]
        /\ result = [p \in Procs |-> NoResult]
        /\ emitted = [p \in Procs |-> 0]
        /\ calls = 0

Init == \E sc \in Scenarios, a1 \in Amounts, a2 \in Amounts2 : InitWith(sc, a1, a2)

\* --------------------------------------------------------------- responses
Credit(uid, name, role, amount, pct) ==
    [user_id |-> uid, user_name |-> name, role |-> role, amount |-> amount,
     percentage |-> pct]

\* variant: the cached response stamped with the time of the replay
ReplayResponse_FreshTimestamp(existing_escrow, deal, key, utcnow) ==
    [code |-> 200, detail |-> "replay",
     body |->
        [status |-> "funds_released",
         deal_number |-> deal.deal_number,
         deal_title |-> deal.title,
         escrow_id |-> existing_escrow.id,
         amount |-> ToE4(existing_escrow.amount),
         currency |-> existing_escrow.currency,
         producer_credit |->
            Credit("cached", "cached", "producer",
                   existing_escrow.amount * PRODUCER_SHARE, 90),
         driver_credit |->
            Credit("cached", "cached", "driver",
                   existing_escrow.amount * DRIVER_SHARE, 10),
         released_at |-> utcnow,
         idempotency_key |-> key,
         message |->
            [text |-> "Idempotent replay - funds were already released.",
             deal_number |-> 0, title |-> NULL,
             producer_name |-> NULL, driver_name |-> NULL]]]

\* The cached response of the idempotency pre-check.
ReplayResponse(existing_escrow, deal, key, utcnow) ==
    [code |-> 200, detail |-> "replay",
     body |->
        [status |-> "funds_released",
         deal_number |-> deal.deal_number,
         deal_title |-> deal.title,
         escrow_id |-> existing_escrow.id,
         amount |-> ToE4(existing_escrow.amount),
         currency |-> existing_escrow.currency,
         producer_credit |->
            Credit("cached", "cached", "producer",
                   existing_escrow.amount * PRODUCER_SHARE, 90),
         driver_credit |->
            Credit("cached", "cached", "driver",
                   existing_escrow.amount * DRIVER_SHARE, 10),
         released_at |->
            IF existing_escrow.released_at # NullTime
            THEN existing_escrow.released_at ELSE utcnow,
         idempotency_key |-> key,
         message |->
            [text |-> "Idempotent replay - funds were already released.",
             deal_number |-> 0, title |-> NULL,
             producer_name |-> NULL, driver_name |-> NULL]]]

\* The response of a settlement, built from the session's objects.  The two
\* amounts rendered inside the message text are not modelled.
ReleaseResponse(S, deal, key) ==
    [code |-> 200, detail |-> "released",
     body |->
        [status |-> "funds_released",
         deal_number |-> deal.deal_number,
         deal_title |-> deal.title,
         escrow_id |-> S.escrow.id,
         amount |-> ToE4(S.escrow.amount),
         currency |-> S.escrow.currency,
         producer_credit |->
            Credit(deal.seller_id, FullName(deal.seller_id), "producer",
                   S.producer_amount, 90),
         driver_credit |->
            Credit(deal.driver_id, FullName(deal.driver_id), "driver",
                   S.driver_amount, 10),
         released_at |-> S.now,
         idempotency_key |-> key,
         message |->
            [text |-> "Funds released for Deal",
             deal_number |-> deal.deal_number, title |-> deal.title,
             producer_name |-> FullName(deal.seller_id),
             driver_name |-> FullName(deal.driver_id)]]]

\* ------------------------------------------------------------------ audit
EscrowColumns ==
    {"id", "deal_group_id", "amount", "currency", "status", "payer_id",
     "payee_id", "released_by_id", "idempotency_key", "released_at"}

\* Decimal -> float; the other column types keep their value.
_serialize_value(key, value) == IF key = "amount" THEN ToE4(value) ELSE value

\* variant: every column is reported, changed or not
_get_changes_AllColumns(old, new) ==
    [k \in EscrowColumns |->
        [old |-> _serialize_value(k, old[k]), new |-> _serialize_value(k, new[k])]]

\* attr.history of every attribute: old is the loaded row, new the object now
_get_changes(old, new) ==
    [k \in {c \in EscrowColumns : old[c] # new[c]} |->
        [old |-> _serialize_value(k, old[k]), new |-> _serialize_value(k, new[k])]]

_get_snapshot(instance) ==
    [k \in EscrowColumns |-> _serialize_value(k, instance[k])]

\* the coroutine handed to loop.create_task by escrow_after_update
EscrowUpdateTask(old, new) ==
    [action |-> "UPDATE", table_name |-> "escrow_transactions",
     record_id |-> new.id, changes |-> _get_changes(old, new),
     snapshot |-> _get_snapshot(new)]

\* the coroutine handed to loop.create_task by escrow_after_insert
EscrowInsertTask(target) ==
    [action |-> "INSERT", table_name |-> "escrow_transactions",
     record_id |-> target.id, changes |-> _get_changes(target, target),
     snapshot |-> _get_snapshot(target)]

\* the tasks the after_insert listener creates for a flushed new row
escrow_after_insert(target) == <<EscrowInsertTask(target)>>

\* the tasks the after_update listener creates for a flushed dirty object:
\* none when no attribute has a change in its history
escrow_after_update(old, new) ==
    IF DOMAIN _get_changes(old, new) = {} THEN <<>>
    ELSE <<EscrowUpdateTask(old, new)>>

\* ------------------------------------------------------------ transactions
OtherLocks(p) == UNION {sess[q].locks : q \in Procs \ {p}}

Free(p, row) == row \notin OtherLocks(p)

KeyHolders(key) ==
    {d \in DealIds : escrows[d].id # NULL /\ escrows[d].idempotency_key = key}

\* the identity map after loading user u (an object already present is kept)
Loaded(S, u) ==
    IF u \in DOMAIN S.users THEN S.users
    ELSE (u :> ToE4(accounts[u].balance)) @@ S.users

\* What COMMIT makes durable: every flushed change of the session.
CommittedEscrows(p) ==
    IF sess[p].escrow_dirty
    THEN [escrows EXCEPT ![sess[p].deal] = sess[p].escrow]
    ELSE escrows

\* variant: the settlement also takes the amount from the payer's balance
CommittedAccounts_DebitsPayer(p) ==
    [u \in Users |->
        IF u = sess[p].escrow.payer_id
        THEN [accounts[u] EXCEPT !.balance = @ - sess[p].escrow.amount]
        ELSE IF u \in sess[p].dirty
        THEN [accounts[u] EXCEPT !.balance = StoreNumeric2(sess[p].users[u])]
        ELSE accounts[u]]

CommittedAccounts(p) ==
    [u \in Users |->
        IF u \in sess[p].dirty
        THEN [accounts[u] EXCEPT !.balance = StoreNumeric2(sess[p].users[u])]
        ELSE accounts[u]]

CommittedShipments(p) ==
    IF sess[p].shipment_dirty
    THEN [shipments EXCEPT ![sess[p].deal] = sess[p].shipment]
    ELSE shipments

\* variant: the flushed escrow UPDATE survives the failure
RolledBackEscrows_KeepsFlushed(p) == CommittedEscrows(p)

\* What ROLLBACK leaves: the tables as they were.
RolledBackEscrows(p) == escrows

RolledBackAccounts(p) == accounts

RolledBackShipments(p) == shipments

\* the handler ends with res: the session context manager closes the session
Finish(p, res) ==
    /\ pc' = [pc EXCEPT ![p] = "done"]
    /\ result' = [result EXCEPT ![p] = res]
    /\ sess' = [sess EXCEPT ![p] = EmptySession]

\* an exception leaves `async with session.begin()`: rollback, locks released
Raise(p, err) ==
    /\ Finish(p, err)
    /\ escrows' = RolledBackEscrows(p)
    /\ accounts' = RolledBackAccounts(p)
    /\ shipments' = RolledBackShipments(p)
    /\ UNCHANGED <<deals, audit_logs, tasks, clock, req, emitted, calls>>

Goto(p, label, S) ==
    /\ pc' = [pc EXCEPT ![p] = label]
    /\ sess' = [sess EXCEPT ![p] = S]
    /\ UNCHANGED <<db, audit_logs, result, req, calls>>

\* ---------------------------------------------------- POST /api/escrow/release
\* a request arrives: `async with async_session() as session`
Call(p, d, pin, key) ==
    /\ pc[p] \in {"idle", "done"}
    /\ calls < MaxCalls
    /\ calls' = calls + 1
    /\ pc' = [pc EXCEPT ![p] = "precheck"]
    /\ req' = [req EXCEPT ![p] = [deal_id |-> d, pin |-> pin, idempotency_key |-> key]]
    /\ result' = [result EXCEPT ![p] = NoResult]
    /\ emitted' = [emitted EXCEPT ![p] = 0]
    /\ UNCHANGED <<db, audit_logs, tasks, clock, sess>>

\* variant: the status of the escrow that holds the key is not looked at
PreCheckResult_AnyStatus(key, utcnow) ==
    IF key = NULL \/ KeyHolders(key) = {} THEN NoResult
    ELSE LET existing_escrow == escrows[CHOOSE d \in KeyHolders(key) : TRUE]
         IN  ReplayResponse(existing_escrow,
                            deals[existing_escrow.deal_group_id], key, utcnow)

\* Step 1: what the idempotency check returns or raises; NoResult: go on
PreCheckResult(key, utcnow) ==
    IF key = NULL \/ KeyHolders(key) = {} THEN NoResult
    ELSE LET existing_escrow == escrows[CHOOSE d \in KeyHolders(key) : TRUE]
         IN  IF existing_escrow.status = "funds_released"
             THEN ReplayResponse(existing_escrow,
                                 deals[existing_escrow.deal_group_id], key, utcnow)
             ELSE HttpError(409, "Idempotency key exists but escrow is not released")

\* Step 1.  The SELECT by key, when it runs, autobegins the session's transaction.
PreCheck(p) ==
    LET key == req[p].idempotency_key
        res == PreCheckResult(key, clock)
    IN  /\ pc[p] = "precheck"
        /\ IF res = NoResult
           THEN /\ pc' = [pc EXCEPT ![p] = "begin"]
                /\ sess' = [sess EXCEPT ![p].in_txn = (key # NULL)]
                /\ UNCHANGED <<result, clock>>
           ELSE /\ Finish(p, res)
                /\ clock' = IF res.code = 200 /\ res.body.released_at = clock
                            THEN clock + 1 ELSE clock
        /\ UNCHANGED <<db, audit_logs, tasks, req, emitted, calls>>

\* `async with session.begin()`: Session.begin() raises InvalidRequestError
\* ("A transaction is already begun on this Session.") when the session has
\* already begun one; the request then ends as an unhandled error (500).
Begin(p) ==
    /\ pc[p] = "begin"
    /\ IF sess[p].in_txn
       THEN /\ Finish(p, HttpError(500, "InvalidRequestError"))
            /\ UNCHANGED <<db>>
       ELSE /\ pc' = [pc EXCEPT ![p] = "fetch_deal"]
            /\ sess' = [sess EXCEPT ![p].in_txn = TRUE]
            /\ UNCHANGED <<db, result>>
    /\ UNCHANGED <<audit_logs, tasks, clock, req, emitted, calls>>

\* Step 2-3: fetch the deal group
FetchDeal(p) ==
    /\ pc[p] = "fetch_deal"
    /\ IF req[p].deal_id \notin DealIds
       THEN Raise(p, HttpError(404, "Deal not found"))
       ELSE /\ Goto(p, "lock_escrow", [sess[p] EXCEPT !.deal = req[p].deal_id])
            /\ UNCHANGED <<tasks, clock, emitted>>

\* variant: the locked row's status is not checked again
LockEscrow_NoStatusCheck(p) ==
    LET d == sess[p].deal
        escrow == escrows[d]
    IN  /\ pc[p] = "lock_escrow"
        /\ IF escrow.id = NULL
           THEN Raise(p, HttpError(404, "No escrow transaction found"))
           ELSE /\ Free(p, <<"escrow", d>>)
                /\ Goto(p, "lock_payer",
                        [sess[p] EXCEPT !.escrow = escrow,
                                        !.locks = @ \cup {<<"escrow", d>>}])
                /\ UNCHANGED <<tasks, clock, emitted>>

\* Step 3-4: lock the escrow row FOR UPDATE, verify HELD
LockEscrow(p) ==
    LET d == sess[p].deal
        escrow == escrows[d]
    IN  /\ pc[p] = "lock_escrow"
        /\ IF escrow.id = NULL
           THEN Raise(p, HttpError(404, "No escrow transaction found"))
           ELSE /\ Free(p, <<"escrow", d>>)
                /\ IF escrow.status = "funds_released"
                   THEN Raise(p, HttpError(409, "Funds have already been released"))
                   ELSE IF escrow.status # "held"
                   THEN Raise(p, HttpError(400, "Only held escrows can be released"))
                   ELSE /\ Goto(p, "lock_payer",
                                [sess[p] EXCEPT !.escrow = escrow,
                                                !.locks = @ \cup {<<"escrow", d>>}])
                        /\ UNCHANGED <<tasks, clock, emitted>>

\* Step 6: the escrow object after the transition
Released(escrow, now, payer_id, key) ==
    [escrow EXCEPT !.status = "funds_released",
                   !.released_at = now,
                   !.released_by_id = payer_id,
                   !.idempotency_key = IF key # NULL THEN key ELSE @]

\* Step 5-6: lock the payer row, verify the PIN, update the escrow object.
\* The UPDATE of the escrow row is flushed by the next statement's autoflush
\* before that statement can wait for a lock; escrow_after_update fires on that
\* flush and creates the audit task.  No other handler runs in between.
LockPayer(p) ==
    LET S == sess[p]
        payer_id == S.escrow.payer_id
        key == req[p].idempotency_key
        new == Released(S.escrow, clock, payer_id, key)
    IN  /\ pc[p] = "lock_payer"
        /\ IF payer_id = NULL
           THEN Raise(p, HttpError(404, "Payer account not found"))
           ELSE /\ Free(p, <<"user", payer_id>>)
                /\ IF accounts[payer_id].escrow_pin_hash = NULL
                   THEN Raise(p, HttpError(403, "Payer has no escrow PIN configured"))
                   ELSE IF ~_verify_pin(req[p].pin, accounts[payer_id].escrow_pin_hash)
                   THEN Raise(p, HttpError(403, "Invalid PIN"))
                   ELSE IF key # NULL /\ KeyHolders(key) \ {S.deal} # {}
                   THEN Raise(p, HttpError(500, "IntegrityError"))
                   ELSE /\ pc' = [pc EXCEPT ![p] = "lock_producer"]
                        /\ sess' = [sess EXCEPT ![p] =
                              [S EXCEPT !.users = Loaded(S, payer_id),
                                        !.locks = @ \cup {<<"user", payer_id>>},
                                        !.now = clock,
                                        !.escrow = new,
                                        !.escrow_dirty = TRUE]]
                        /\ clock' = clock + 1
                        /\ tasks' = tasks \o escrow_after_update(S.escrow, new)
                        /\ emitted' = [emitted EXCEPT ![p] =
                                          @ + Len(escrow_after_update(S.escrow, new))]
                        /\ UNCHANGED <<db, audit_logs, result, req, calls>>

\* Step 7: lock the producer row, credit 90%
LockProducer(p) ==
    LET S == sess[p]
        seller_id == deals[S.deal].seller_id
        producer_amount == ProducerAmount(S.escrow.amount)
        users == Loaded(S, seller_id)
    IN  /\ pc[p] = "lock_producer"
        /\ IF seller_id = NULL
           THEN Raise(p, HttpError(404, "Producer (seller) account not found"))
           ELSE /\ Free(p, <<"user", seller_id>>)
                /\ Goto(p, "lock_driver",
                        [S EXCEPT !.users = [users EXCEPT ![seller_id] = @ + producer_amount],
                                  !.dirty = @ \cup {seller_id},
                                  !.producer_amount = producer_amount,
                                  !.locks = @ \cup {<<"user", seller_id>>}])
                /\ UNCHANGED <<tasks, clock, emitted>>

\* Step 8: lock the driver row, credit 10%
LockDriver(p) ==
    LET S == sess[p]
        driver_id == deals[S.deal].driver_id
        driver_amount == DriverAmount(S.escrow.amount)
        users == Loaded(S, driver_id)
    IN  /\ pc[p] = "lock_driver"
        /\ IF driver_id = NULL
           THEN Raise(p, HttpError(404, "Driver account not found"))
           ELSE /\ Free(p, <<"user", driver_id>>)
                /\ Goto(p, "lock_shipment",
                        [S EXCEPT !.users = [users EXCEPT ![driver_id] = @ + driver_amount],
                                  !.dirty = @ \cup {driver_id},
                                  !.driver_amount = driver_amount,
                                  !.locks = @ \cup {<<"user", driver_id>>}])
                /\ UNCHANGED <<tasks, clock, emitted>>

\* variant: the shipment is stamped with a utcnow() of its own
LockShipment_FreshTimestamp(p) ==
    LET S == sess[p]
        shipment == shipments[S.deal]
    IN  /\ pc[p] = "lock_shipment"
        /\ IF shipment.id = NULL
           THEN Goto(p, "commit", S)
           ELSE /\ Free(p, <<"shipment", S.deal>>)
                /\ Goto(p, "commit",
                        [S EXCEPT !.shipment = [shipment EXCEPT !.status = "delivered",
                                                                !.delivered_at = clock],
                                  !.shipment_dirty = TRUE,
                                  !.locks = @ \cup {<<"shipment", S.deal>>}])
        /\ UNCHANGED <<tasks, clock, emitted>>

\* Step 9: lock the shipment row if there is one, mark it DELIVERED
LockShipment(p) ==
    LET S == sess[p]
        shipment == shipments[S.deal]
    IN  /\ pc[p] = "lock_shipment"
        /\ IF shipment.id = NULL
           THEN Goto(p, "commit", S)
           ELSE /\ Free(p, <<"shipment", S.deal>>)
                /\ Goto(p, "commit",
                        [S EXCEPT !.shipment = [shipment EXCEPT !.status = "delivered",
                                                                !.delivered_at = S.now],
                                  !.shipment_dirty = TRUE,
                                  !.locks = @ \cup {<<"shipment", S.deal>>}])
        /\ UNCHANGED <<tasks, clock, emitted>>

\* Step 10: the transaction commits on leaving the block; the response returns
Commit(p) ==
    /\ pc[p] = "commit"
    /\ escrows' = CommittedEscrows(p)
    /\ accounts' = CommittedAccounts(p)
    /\ shipments' = CommittedShipments(p)
    /\ Finish(p, ReleaseResponse(sess[p], deals[sess[p].deal], req[p].idempotency_key))
    /\ UNCHANGED <<deals, audit_logs, tasks, clock, req, emitted, calls>>

\* the row handler p is waiting to lock, NULL when it is not at a locking step
Wanted(p) ==
    CASE pc[p] = "lock_escrow" /\ escrows[sess[p].deal].id # NULL ->
            <<"escrow", sess[p].deal>>
      [] pc[p] = "lock_payer" /\ sess[p].escrow.payer_id # NULL ->
            <<"user", sess[p].escrow.payer_id>>
      [] pc[p] = "lock_producer" /\ deals[sess[p].deal].seller_id # NULL ->
            <<"user", deals[sess[p].deal].seller_id>>
      [] pc[p] = "lock_driver" /\ deals[sess[p].deal].driver_id # NULL ->
            <<"user", deals[sess[p].deal].driver_id>>
      [] pc[p] = "lock_shipment" /\ shipments[sess[p].deal].id # NULL ->
            <<"shipment", sess[p].deal>>
      [] OTHER -> <<NULL, NULL>>

Blocked(p, q) == p # q /\ Wanted(p) \in sess[q].locks

\* PostgreSQL's deadlock detector aborts one transaction of a wait cycle; the
\* handler gets DeadlockDetectedError, an unhandled error (500).
DeadlockAbort(p) ==
    /\ \E q \in Procs : Blocked(p, q) /\ Blocked(q, p)
    /\ Raise(p, HttpError(500, "DeadlockDetectedError"))

\* ------------------------------------------------- GET /api/escrow/{deal_id}
\* variant: the status is reported as HELD whatever the row says
StatusResponse_AlwaysHeld(deal, escrow) ==
    [code |-> 200, detail |-> "status",
     body |->
        [escrow_id |-> escrow.id,
         deal_number |-> deal.deal_number,
         amount |-> ToE4(escrow.amount),
         currency |-> escrow.currency,
         status |-> "held",
         payer |-> IF escrow.payer_id # NULL THEN FullName(escrow.payer_id) ELSE NULL,
         payee |-> IF escrow.payee_id # NULL THEN FullName(escrow.payee_id) ELSE NULL,
         released_at |-> escrow.released_at]]

\* EscrowStatusResponse; created_at (no column of the model) is left out
StatusResponse(deal, escrow) ==
    [code |-> 200, detail |-> "status",
     body |->
        [escrow_id |-> escrow.id,
         deal_number |-> deal.deal_number,
         amount |-> ToE4(escrow.amount),
         currency |-> escrow.currency,
         status |-> escrow.status,
         payer |-> IF escrow.payer_id # NULL THEN FullName(escrow.payer_id) ELSE NULL,
         payee |-> IF escrow.payee_id # NULL THEN FullName(escrow.payee_id) ELSE NULL,
         released_at |-> escrow.released_at]]

GetStatusResult(deal_id) ==
    IF deal_id \notin DealIds THEN HttpError(404, "Deal not found")
    ELSE IF escrows[deal_id].id = NULL
    THEN HttpError(404, "No escrow transaction for this deal")
    ELSE StatusResponse(deals[deal_id], escrows[deal_id])

\* get_escrow_status: plain SELECTs in a session that is closed without commit.
\* Deal rows and user names never change, so the handler is one step at its
\* read of the escrow row.  A request without a pin is a status request.
GetStatus(p, deal_id) ==
    /\ pc[p] \in {"idle", "done"}
    /\ calls < MaxCalls
    /\ calls' = calls + 1
    /\ pc' = [pc EXCEPT ![p] = "done"]
    /\ req' = [req EXCEPT ![p] = [deal_id |-> deal_id, pin |-> NULL, idempotency_key |-> NULL]]
    /\ result' = [result EXCEPT ![p] = GetStatusResult(deal_id)]
    /\ emitted' = [emitted EXCEPT ![p] = 0]
    /\ UNCHANGED <<db, audit_logs, tasks, clock, sess>>

\* ------------------------------------------------------- _write_audit_log
\* variant: the write replaces the log by the new entry
AuditWrite_Overwrites(i, ok) ==
    /\ i \in DOMAIN tasks
    /\ tasks' = [j \in 1..(Len(tasks) - 1) |-> IF j < i THEN tasks[j] ELSE tasks[j + 1]]
    /\ audit_logs' = IF ok THEN <<tasks[i]>> ELSE audit_logs
    /\ UNCHANGED <<db, clock, pc, req, sess, result, emitted, calls>>

\* variant: the entry is inserted twice
AuditWrite_Twice(i, ok) ==
    /\ i \in DOMAIN tasks
    /\ tasks' = [j \in 1..(Len(tasks) - 1) |-> IF j < i THEN tasks[j] ELSE tasks[j + 1]]
    /\ audit_logs' = IF ok THEN Append(Append(audit_logs, tasks[i]), tasks[i])
                          ELSE audit_logs
    /\ UNCHANGED <<db, clock, pc, req, sess, result, emitted, calls>>

\* variant: a failed write surfaces as the result of the requests
AuditWrite_FailureSurfaces(i, ok) ==
    /\ i \in DOMAIN tasks
    /\ tasks' = [j \in 1..(Len(tasks) - 1) |-> IF j < i THEN tasks[j] ELSE tasks[j + 1]]
    /\ audit_logs' = IF ok THEN Append(audit_logs, tasks[i]) ELSE audit_logs
    /\ result' = IF ok THEN result
                 ELSE [p \in Procs |-> HttpError(500, "Failed to write audit log")]
    /\ UNCHANGED <<db, clock, pc, req, sess, emitted, calls>>

\* The event loop runs one audit task: the entry is inserted in a session and
\* transaction of its own, or the write fails and the exception is logged and
\* swallowed.  The entry's id and created_at are not modelled.
AuditWrite(i, ok) ==
    /\ i \in DOMAIN tasks
    /\ tasks' = [j \in 1..(Len(tasks) - 1) |-> IF j < i THEN tasks[j] ELSE tasks[j + 1]]
    /\ audit_logs' = IF ok THEN Append(audit_logs, tasks[i]) ELSE audit_logs
    /\ UNCHANGED <<db, clock, pc, req, sess, result, emitted, calls>>

Next ==
    \/ \E p \in Procs, d \in ReqDeals, pin \in Pins, key \in Keys \cup {NULL} :
            Call(p, d, pin, key)
    \/ \E p \in Procs : PreCheck(p)
    \/ \E p \in Procs : Begin(p)
    \/ \E p \in Procs : FetchDeal(p)
    \/ \E p \in Procs : LockEscrow(p)
    \/ \E p \in Procs : LockPayer(p)
    \/ \E p \in Procs : LockProducer(p)
    \/ \E p \in Procs : LockDriver(p)
    \/ \E p \in Procs : LockShipment(p)
    \/ \E p \in Procs : Commit(p)
    \/ \E p \in Procs : DeadlockAbort(p)
    \/ \E p \in Procs, d \in ReqDeals : GetStatus(p, d)
    \/ \E i \in 1..MaxCalls, ok \in BOOLEAN : AuditWrite(i, ok)

Spec == Init /\ [][Next]_vars

\* The same program while no audit write fails.
AuditOkNext ==
    \/ \E p \in Procs, d \in ReqDeals, pin \in Pins, key \in Keys \cup {NULL} :
            Call(p, d, pin, key)
    \/ \E p \in Procs : PreCheck(p)
    \/ \E p \in Procs : Begin(p)
    \/ \E p \in Procs : FetchDeal(p)
    \/ \E p \in Procs : LockEscrow(p)
    \/ \E p \in Procs : LockPayer(p)
    \/ \E p \in Procs : LockProducer(p)
    \/ \E p \in Procs : LockDriver(p)
    \/ \E p \in Procs : LockShipment(p)
    \/ \E p \in Procs : Commit(p)
    \/ \E p \in Procs : DeadlockAbort(p)
    \/ \E p \in Procs, d \in ReqDeals : GetStatus(p, d)
    \/ \E i \in 1..MaxCalls : AuditWrite(i, TRUE)

AuditOkSpec == Init /\ [][AuditOkNext]_vars

\* ------------------------------------------------- the listeners by themselves
\* The unit of work flushes one EscrowTransaction object: a dirty object of an
\* existing row (after_update) or a new object (after_insert).  The object's
\* attribute values are drawn from the values a row can take.
FlushKinds == {"flush_update", "flush_insert"}

Touched(e) ==
    {[e EXCEPT !.status = st, !.released_at = at, !.released_by_id = by,
               !.idempotency_key = key, !.amount = amt] :
        st \in {e.status, "funds_released"},
        at \in {e.released_at, 1},
        by \in {e.released_by_id, e.payer_id},
        key \in {e.idempotency_key, "k1"},
        amt \in {e.amount, e.amount + 1}}

FlushInit ==
    \E sc \in Scenarios, a1 \in Amounts, a2 \in Amounts2,
       d \in DealIds, kind \in FlushKinds :
        \E obj \in Touched(SeedEscrows(sc, a1, a2)[d]) :
            /\ deals = SeedDeals(sc)
            /\ escrows = IF kind = "flush_insert"
                         THEN [SeedEscrows(sc, a1, a2) EXCEPT ![d] = NoEscrow]
                         ELSE SeedEscrows(sc, a1, a2)
            /\ accounts = SeedAccounts
            /\ shipments = SeedShipments(sc)
            /\ audit_logs = <<>>
            /\ tasks = <<>>
            /\ clock = 1
            /\ pc = [p \in Procs |-> IF p = "p1" THEN kind ELSE "idle"]
            /\ req = [p \in Procs |-> NoRequest]
            /\ sess = [p \in Procs |->
                          IF p = "p1"
                          THEN [EmptySession EXCEPT !.in_txn = TRUE, !.deal = d,
                                                    !.escrow = obj, !.escrow_dirty = TRUE]
                          ELSE EmptySession]
            /\ result = [p \in Procs |-> NoResult]
            /\ emitted = [p \in Procs |-> 0]
            /\ calls = 0

\* the mapper emits the UPDATE of the dirty object and calls escrow_after_update
FlushUpdate(p) ==
    LET created == escrow_after_update(escrows[sess[p].deal], sess[p].escrow)
    IN  /\ pc[p] = "flush_update"
        /\ pc' = [pc EXCEPT ![p] = "flushed_update"]
        /\ tasks' = tasks \o created
        /\ emitted' = [emitted EXCEPT ![p] = Len(created)]
        /\ UNCHANGED <<db, audit_logs, clock, req, sess, result, calls>>

\* the mapper emits the INSERT of the new object and calls escrow_after_insert
FlushInsert(p) ==
    LET created == escrow_after_insert(sess[p].escrow)
    IN  /\ pc[p] = "flush_insert"
        /\ pc' = [pc EXCEPT ![p] = "flushed_insert"]
        /\ tasks' = tasks \o created
        /\ emitted' = [emitted EXCEPT ![p] = Len(created)]
        /\ UNCHANGED <<db, audit_logs, clock, req, sess, result, calls>>

FlushNext ==
    \/ FlushUpdate("p1")
    \/ FlushInsert("p1")
    \/ \E i \in 1..MaxCalls, ok \in BOOLEAN : AuditWrite(i, ok)

FlushSpec == FlushInit /\ [][FlushNext]_vars

\* One handler settling deal d1 with the payer's PIN and no key, for every
\* escrow amount from 0.00 to MaxAmount cents.
SplitInit == \E a \in 0..MaxAmount : InitWith("cross", a, 4385)

SplitNext ==
    \/ Call("p1", "d1", "1234", NULL)
    \/ PreCheck("p1")
    \/ Begin("p1")
    \/ FetchDeal("p1")
    \/ LockEscrow("p1")
    \/ LockPayer("p1")
    \/ LockProducer("p1")
    \/ LockDriver("p1")
    \/ LockShipment("p1")
    \/ Commit("p1")

SplitSpec == SplitInit /\ [][SplitNext]_vars

\* ================================================================== claims
\* helpers of the claims' statements
CorrectPin(p) ==
    LET d == req[p].deal_id
    IN  /\ d \in DealIds
        /\ escrows[d].id # NULL
        /\ escrows[d].payer_id # NULL
        /\ accounts[escrows[d].payer_id].escrow_pin_hash # NULL
        /\ _verify_pin(req[p].pin, accounts[escrows[d].payer_id].escrow_pin_hash)

WrongPin(p) ==
    LET d == req[p].deal_id
    IN  /\ d \in DealIds
        /\ req[p].pin # NULL
        /\ escrows[d].id # NULL
        /\ escrows[d].payer_id # NULL
        /\ accounts[escrows[d].payer_id].escrow_pin_hash # NULL
        /\ ~_verify_pin(req[p].pin, accounts[escrows[d].payer_id].escrow_pin_hash)

AccountsPresent(d) ==
    /\ escrows[d].payer_id # NULL
    /\ deals[d].seller_id # NULL
    /\ deals[d].driver_id # NULL

\* the deals whose escrow row carries the request's key (none without a key)
Recorded(key) == IF key = NULL THEN {} ELSE KeyHolders(key)

\* C1: two release calls on the same deal whose escrow was HELD, both with the
\* payer's correct PIN (here even restricted to a deal whose payer, producer and
\* driver accounts exist, with balances starting at zero, and to keys that no
\* escrow carried before the calls): once both have returned, exactly one returned success, the other returned 409, the escrow
\* is FUNDS_RELEASED and the producer and the driver hold exactly one credit each.
C1_NoDoubleRelease ==
    (/\ calls = 2
     /\ \A p \in Procs : pc[p] = "done" /\ CorrectPin(p)
     /\ req["p1"].deal_id = req["p2"].deal_id
     /\ AccountsPresent(req["p1"].deal_id)
     /\ \A p \in Procs : \A d \in Recorded(req[p].idempotency_key) :
            d = req["p1"].deal_id /\ escrows[d].status = "funds_released"
     /\ escrows[req["p1"].deal_id].released_at # 0
     /\ \A d \in DealIds \ {req["p1"].deal_id} : escrows[d].released_at <= 0)
    =>
    (/\ \E p \in Procs :
            /\ result[p].code = 200 /\ result[p].detail = "released"
            /\ \A q \in Procs \ {p} : result[q].code = 409
     /\ escrows[req["p1"].deal_id].status = "funds_released"
     /\ \A u \in Users :
            accounts[u].balance =
                LET d == req["p1"].deal_id
                IN  IF u = deals[d].seller_id
                    THEN StoreNumeric2(ProducerAmount(escrows[d].amount))
                    ELSE IF u = deals[d].driver_id
                    THEN StoreNumeric2(DriverAmount(escrows[d].amount))
                    ELSE 0)

\* C2: a release that ends in a failure leaves every committed escrow, account
\* and shipment row as it was: the only steps that change a committed row are
\* the commits of calls that return success.
C2_FailureLeavesStateUnchanged ==
    [][/\ \A p \in Procs :
            (pc[p] # "done" /\ pc'[p] = "done" /\ result'[p].code # 200)
            => (escrows' = escrows /\ accounts' = accounts /\ shipments' = shipments)
       /\ (db' # db) =>
            \E p \in Procs : pc[p] = "commit" /\ pc'[p] = "done" /\ result'[p].code = 200
      ]_vars

\* a release failed on the missing driver after its escrow UPDATE was flushed
C2_Witness ==
    \E p \in Procs :
        /\ pc[p] = "done"
        /\ result[p].code = 404 /\ result[p].detail = "Driver account not found"
        /\ emitted[p] = 1
        /\ escrows[req[p].deal_id].status = "held"
        /\ escrows[req[p].deal_id].released_at = NullTime
        /\ \A u \in Users : accounts[u].balance = 0

\* C3: a release with a wrong PIN on a HELD escrow (the payer has a PIN, and
\* the request carries no key or a key recorded nowhere) returns 403 and
\* creates no audit record.
C3_WrongPinForbidden ==
    \A p \in Procs :
        (/\ pc[p] = "done"
         /\ WrongPin(p)
         /\ escrows[req[p].deal_id].status = "held"
         /\ Recorded(req[p].idempotency_key) = {})
        => (result[p].code = 403 /\ emitted[p] = 0)

\* C4: a release whose key is recorded on a FUNDS_RELEASED escrow returns, every
\* time, a success carrying that escrow's amount, the two shares the settlement
\* credited and its released_at, and changes no row, creates no audit task.
C4_ReplayReturnsSettlement ==
    [][\A p \in Procs : \A d \in DealIds :
        (/\ pc[p] = "precheck" /\ pc'[p] # "precheck"
         /\ req[p].idempotency_key # NULL
         /\ escrows[d].idempotency_key = req[p].idempotency_key
         /\ escrows[d].status = "funds_released")
        => (/\ pc'[p] = "done"
            /\ result'[p].code = 200
            /\ result'[p].body.amount = ToE4(escrows[d].amount)
            /\ result'[p].body.producer_credit.amount = ProducerAmount(escrows[d].amount)
            /\ result'[p].body.driver_credit.amount = DriverAmount(escrows[d].amount)
            /\ result'[p].body.released_at = escrows[d].released_at
            /\ db' = db /\ tasks' = tasks /\ audit_logs' = audit_logs)
      ]_vars

\* the replay was answered twice and nothing moved
C4_Witness ==
    /\ \A p \in Procs : pc[p] = "done" /\ result[p].detail = "replay"
    /\ \A u \in Users : accounts[u].balance = 0
    /\ escrows["d2"].status = "funds_released" /\ escrows["d2"].released_at = 0

\* the response the settlement of escrow row e returned (lines 276-305)
OriginalResponse(e) ==
    ReleaseResponse([EmptySession EXCEPT !.escrow = e, !.now = e.released_at,
                                         !.producer_amount = ProducerAmount(e.amount),
                                         !.driver_amount = DriverAmount(e.amount)],
                    deals[e.deal_group_id], e.idempotency_key)

\* C5: the response of a replay equals, field by field, the response of the
\* successful call that settled the escrow.
C5_ReplayIdenticalResponse ==
    \A p \in Procs : \A d \in DealIds :
        (/\ pc[p] = "done" /\ result[p].detail = "replay"
         /\ escrows[d].idempotency_key = req[p].idempotency_key)
        => result[p].body = OriginalResponse(escrows[d]).body

\* C6: the two shares a release computes sum to the escrow amount, while they
\* are held in the transaction and in the response it returns.
C6_SplitSumsToAmount ==
    \A p \in Procs :
        /\ pc[p] \in {"lock_shipment", "commit"}
           => sess[p].producer_amount + sess[p].driver_amount = ToE4(sess[p].escrow.amount)
        /\ (pc[p] = "done" /\ result[p].detail = "released")
           => result[p].body.producer_credit.amount + result[p].body.driver_credit.amount
                = result[p].body.amount

\* a settlement of 0.05 returned: shares 0.0450 and 0.0050
C6_Witness ==
    /\ pc["p1"] = "done" /\ result["p1"].detail = "released"
    /\ result["p1"].body.amount = ToE4(5)
    /\ result["p1"].body.producer_credit.amount = 450
    /\ result["p1"].body.driver_credit.amount = 50

\* C7: each share a release credits is a whole number of cents: the driver
\* share is 10% of the amount rounded to the cent, the producer share is the
\* amount minus the driver share.
C7_SharesWholeCents ==
    \A p \in Procs :
        (pc[p] = "done" /\ result[p].detail = "released")
        => LET body == result[p].body
               driver_share == ToE4(StoreNumeric2((body.amount \div 100) * 10))
           IN  /\ body.driver_credit.amount % 100 = 0
               /\ body.producer_credit.amount % 100 = 0
               /\ body.driver_credit.amount = driver_share
               /\ body.producer_credit.amount = body.amount - driver_share

\* C8: a release of a HELD escrow of amount A with the payer's PIN, all three
\* accounts present, succeeds and commits the escrow as FUNDS_RELEASED, the
\* producer's balance grown by exactly 0.90*A and the driver's by exactly
\* 0.10*A (balances start at zero; producer and driver are distinct accounts).
C8_ReleaseCreditsExactShares ==
    \A p \in Procs :
        (pc[p] = "done" /\ calls = 1)
        => LET d == req[p].deal_id
           IN  /\ result[p].code = 200
               /\ escrows[d].status = "funds_released"
               /\ ToE4(accounts[deals[d].seller_id].balance) = escrows[d].amount * 90
               /\ ToE4(accounts[deals[d].driver_id].balance) = escrows[d].amount * 10

\* C9: a release with the payer's PIN and a key, on a deal whose accounts exist,
\* that is neither answered by the pre-check (replay, key on an unreleased
\* escrow) nor finds the escrow already released nor is a deadlock victim,
\* settles: success, and the escrow row is FUNDS_RELEASED, stamped, with the key.
C9_FirstTimeKeySettles ==
    \A p \in Procs :
        (/\ pc[p] = "done"
         /\ req[p].idempotency_key # NULL
         /\ CorrectPin(p)
         /\ AccountsPresent(req[p].deal_id)
         /\ result[p].detail \notin
                {"replay", "Idempotency key exists but escrow is not released",
                 "Funds have already been released", "DeadlockDetectedError"})
        => LET escrow == escrows[req[p].deal_id]
           IN  /\ result[p].code = 200
               /\ escrow.status = "funds_released"
               /\ escrow.released_at # NullTime
               /\ escrow.released_by_id # NULL
               /\ escrow.idempotency_key = req[p].idempotency_key

\* C10: a release whose key is recorded on an escrow that is not FUNDS_RELEASED
\* ends in its pre-check with 409: the transaction block is never entered, no
\* row changes, no audit task is created.
C10_KeyOnUnreleasedConflicts ==
    [][\A p \in Procs : \A d \in DealIds :
        (/\ pc[p] = "precheck" /\ pc'[p] # "precheck"
         /\ req[p].idempotency_key # NULL
         /\ escrows[d].id # NULL
         /\ escrows[d].idempotency_key = req[p].idempotency_key
         /\ escrows[d].status # "funds_released")
        => (/\ pc'[p] = "done"
            /\ result'[p].code = 409
            /\ sess'[p] = EmptySession /\ emitted'[p] = 0
            /\ db' = db /\ tasks' = tasks /\ audit_logs' = audit_logs /\ clock' = clock)
      ]_vars

\* the key of the HELD escrow of d2 was refused
C10_Witness ==
    \E p \in Procs :
        /\ pc[p] = "done" /\ result[p].code = 409
        /\ result[p].detail = "Idempotency key exists but escrow is not released"
        /\ escrows["d2"].status = "held"
        /\ escrows["d2"].idempotency_key = req[p].idempotency_key

\* the two ways the idempotency pre-check answers a request by itself
PreCheckAnswers ==
    {"replay", "Idempotency key exists but escrow is not released"}

\* C11: two release calls on the same deal with the same key and the payer's
\* PIN, all accounts present, neither answered by the pre-check (so the later
\* one passed the pre-check before the earlier one committed): once both have
\* returned, one has settled the escrow and the other returned a success too.
C11_BlockedDuplicateReplays ==
    (/\ calls = 2
     /\ \A p \in Procs : pc[p] = "done" /\ CorrectPin(p)
     /\ req["p1"].deal_id = req["p2"].deal_id
     /\ req["p1"].idempotency_key = req["p2"].idempotency_key
     /\ req["p1"].idempotency_key # NULL
     /\ AccountsPresent(req["p1"].deal_id)
     /\ \A p \in Procs : result[p].detail \notin PreCheckAnswers)
    =>
    (\E p \in Procs :
        /\ result[p].code = 200 /\ result[p].detail = "released"
        /\ \A q \in Procs \ {p} : result[q].code = 200)

\* C12: two release calls on two different deals with the same key and the
\* payers' PINs, all accounts present, neither answered by the pre-check: once
\* both have returned, each has either settled its deal or failed with 409
\* leaving its escrow HELD, at most one has settled, and no two escrow rows
\* hold the same key.
C12_SameKeyAcrossDeals ==
    (/\ calls = 2
     /\ \A p \in Procs : pc[p] = "done" /\ CorrectPin(p)
                          /\ AccountsPresent(req[p].deal_id)
                          /\ result[p].detail \notin PreCheckAnswers
     /\ req["p1"].deal_id # req["p2"].deal_id
     /\ req["p1"].idempotency_key = req["p2"].idempotency_key
     /\ req["p1"].idempotency_key # NULL)
    =>
    (/\ \A p \in Procs :
            \/ result[p].detail = "released"
            \/ result[p].code = 409 /\ escrows[req[p].deal_id].status = "held"
     /\ \E p \in Procs : result[p].detail # "released"
     /\ \A d, e \in DealIds :
            (d # e /\ escrows[d].id # NULL /\ escrows[e].id # NULL
                   /\ escrows[d].idempotency_key # NULL)
            => escrows[d].idempotency_key # escrows[e].idempotency_key)

\* C13: in every step an escrow's status changes only from HELD to
\* FUNDS_RELEASED, and a FUNDS_RELEASED escrow keeps its status, amount,
\* released_at, released_by_id and idempotency_key.
C13_StatusOnlyHeldToReleased ==
    [][\A d \in DealIds :
        /\ escrows'[d].status # escrows[d].status
           => (escrows[d].status = "held" /\ escrows'[d].status = "funds_released")
        /\ escrows[d].status = "funds_released"
           => /\ escrows'[d].status = "funds_released"
              /\ escrows'[d].amount = escrows[d].amount
              /\ escrows'[d].released_at = escrows[d].released_at
              /\ escrows'[d].released_by_id = escrows[d].released_by_id
              /\ escrows'[d].idempotency_key = escrows[d].idempotency_key
      ]_vars

\* an escrow settled by one call refused the next release and kept its stamp
C13_Witness ==
    \E p \in Procs :
        /\ pc[p] = "done"
        /\ result[p].code = 409
        /\ result[p].detail = "Funds have already been released"
        /\ CorrectPin(p)
        /\ escrows[req[p].deal_id].status = "funds_released"
        /\ escrows[req[p].deal_id].released_at > 0

\* the status the ordered checks of a release give on the committed rows
ExpectedCode(p) ==
    LET d == req[p].deal_id
    IN  IF d \notin DealIds THEN 404
        ELSE IF escrows[d].id = NULL THEN 404
        ELSE IF escrows[d].status = "funds_released" THEN 409
        ELSE IF escrows[d].status # "held" THEN 400
        ELSE IF escrows[d].payer_id = NULL THEN 404
        ELSE IF accounts[escrows[d].payer_id].escrow_pin_hash = NULL THEN 403
        ELSE IF ~_verify_pin(req[p].pin, accounts[escrows[d].payer_id].escrow_pin_hash)
        THEN 403
        ELSE IF deals[d].seller_id = NULL THEN 404
        ELSE IF deals[d].driver_id = NULL THEN 404
        ELSE 200

\* C14: a release that the idempotency pre-check let through returns the
\* status of the first failing check in the order deal, escrow, FUNDS_RELEASED
\* (409), other status (400), payer, PIN hash, PIN, producer, driver, and
\* success when none fails.
C14_FirstFailingCheckDecides ==
    [][\A p \in Procs :
        (pc[p] \notin {"idle", "precheck", "done"} /\ pc'[p] = "done")
        => result'[p].code = ExpectedCode(p)
      ]_vars

\* C15: any two releases refused with 403 carry the same message, whether the
\* payer has no PIN configured or the supplied PIN is wrong.
C15_AuthFailuresIndistinguishable ==
    \A p, q \in Procs :
        (/\ pc[p] = "done" /\ pc[q] = "done"
         /\ result[p].code = 403 /\ result[q].code = 403)
        => result[p].detail = result[q].detail

\* C16: no two releases ever wait for a row lock the other one holds.
C16_NoLockWaitCycle ==
    \A p, q \in Procs : ~(Blocked(p, q) /\ Blocked(q, p))

\* C17: a step in which a status request is answered changes no escrow, deal,
\* account, shipment or audit row and creates no audit task; the answer is 404
\* when the deal or its escrow is missing and otherwise carries the escrow's
\* committed status.
C17_GetStatusReadOnly ==
    [][(calls' # calls /\ \A q \in Procs : pc'[q] = "precheck" => pc[q] = "precheck")
       => /\ deals' = deals /\ escrows' = escrows /\ accounts' = accounts
          /\ shipments' = shipments /\ audit_logs' = audit_logs /\ tasks' = tasks
          /\ \E p \in Procs :
                /\ pc'[p] = "done" /\ req'[p].pin = NULL
                /\ \A q \in Procs \ {p} : result'[q] = result[q] /\ req'[q] = req[q]
                /\ LET d == req'[p].deal_id
                   IN  IF d \in DealIds /\ escrows[d].id # NULL
                       THEN /\ result'[p].code = 200
                            /\ result'[p].body.status = escrows[d].status
                            /\ result'[p].body.released_at = escrows[d].released_at
                            /\ result'[p].body.amount = ToE4(escrows[d].amount)
                       ELSE result'[p].code = 404
      ]_vars

\* a status request reported the settlement another call had committed
C17_Witness ==
    \E p \in Procs :
        /\ pc[p] = "done" /\ req[p].pin = NULL
        /\ result[p].code = 200 /\ result[p].detail = "status"
        /\ result[p].body.status = "funds_released"
        /\ result[p].body.released_at > 0
        /\ escrows[req[p].deal_id].released_at = result[p].body.released_at

\* C18: every audit entry of an escrow update describes a committed row: the
\* escrow it names is FUNDS_RELEASED with the released_at of the entry.
C18_AuditOnlyAfterCommit ==
    \A i \in DOMAIN audit_logs :
        \E d \in DealIds :
            /\ escrows[d].id = audit_logs[i].record_id
            /\ escrows[d].status = "funds_released"
            /\ escrows[d].released_at = audit_logs[i].snapshot.released_at

\* the audit records, written or still to be written, of the update that gave
\* escrow row e its released_at
AuditOf(log, e) ==
    {i \in DOMAIN log :
        /\ log[i].action = "UPDATE"
        /\ log[i].table_name = "escrow_transactions"
        /\ log[i].record_id = e.id
        /\ log[i].snapshot.released_at = e.released_at}

C20_AuditFailureSwallowed ==
    [][Len(tasks') < Len(tasks)
       => /\ deals' = deals /\ escrows' = escrows /\ accounts' = accounts
          /\ shipments' = shipments
          /\ result' = result /\ pc' = pc /\ sess' = sess /\ req' = req
      ]_vars

\* a release returned success and is committed although its audit write failed
C20_Witness ==
    \E p \in Procs :
        /\ pc[p] = "done" /\ result[p].code = 200 /\ result[p].detail = "released"
        /\ emitted[p] = 1
        /\ tasks = <<>> /\ audit_logs = <<>>
        /\ escrows[req[p].deal_id].status = "funds_released"
        /\ accounts[deals[req[p].deal_id].seller_id].balance
                = StoreNumeric2(ProducerAmount(escrows[req[p].deal_id].amount))

\* C21: in every step each audit entry stays where it is with the same action,
\* table name, record id, diff and snapshot; the log only grows.
C21_AuditAppendOnly ==
    [][/\ Len(audit_logs') >= Len(audit_logs)
       /\ \A i \in DOMAIN audit_logs :
            /\ audit_logs'[i].action = audit_logs[i].action
            /\ audit_logs'[i].table_name = audit_logs[i].table_name
            /\ audit_logs'[i].record_id = audit_logs[i].record_id
            /\ audit_logs'[i].changes = audit_logs[i].changes
            /\ audit_logs'[i].snapshot = audit_logs[i].snapshot
      ]_vars

\* two different entries are in the log, the second appended after the first
C21_Witness ==
    /\ Len(audit_logs) = 2
    /\ audit_logs[1] # audit_logs[2]
    /\ audit_logs[1].snapshot.released_at < audit_logs[2].snapshot.released_at

\* C22: in every step every account's stored balance stays non-negative and
\* does not decrease.
C22_BalancesNeverDecrease ==
    [][\A u \in Users :
        /\ accounts[u].balance >= 0
        /\ accounts'[u].balance >= 0
        /\ accounts'[u].balance >= accounts[u].balance
      ]_vars

\* u2 was credited as producer of d1 and as driver of d2
C22_Witness ==
    /\ escrows["d1"].status = "funds_released" /\ escrows["d1"].released_at > 0
    /\ escrows["d2"].status = "funds_released" /\ escrows["d2"].released_at > 0
    /\ deals["d2"].driver_id = "u2"
    /\ accounts["u2"].balance > StoreNumeric2(ProducerAmount(escrows["d1"].amount))

\* C23: after a successful release the escrow is FUNDS_RELEASED with the
\* released_at and the two credits of the response; the deal's shipment, if
\* there is one, is DELIVERED with delivered_at equal to that released_at, and
\* a deal without shipment is settled all the same.
C23_ShipmentDelivered ==
    \A p \in Procs :
        (pc[p] = "done" /\ result[p].detail = "released")
        => LET d == req[p].deal_id
           IN  /\ result[p].code = 200
               /\ escrows[d].status = "funds_released"
               /\ escrows[d].released_at = result[p].body.released_at
               /\ result[p].body.producer_credit.amount = ProducerAmount(escrows[d].amount)
               /\ result[p].body.driver_credit.amount = DriverAmount(escrows[d].amount)
               /\ shipments[d].id # NULL
                  => /\ shipments[d].status = "delivered"
                     /\ shipments[d].delivered_at = escrows[d].released_at

\* d1 was settled with its shipment delivered, d2 was settled without shipment
C23_Witness ==
    /\ \A p \in Procs : pc[p] = "done" /\ result[p].detail = "released"
    /\ shipments["d1"].status = "delivered"
    /\ shipments["d1"].delivered_at = escrows["d1"].released_at
    /\ escrows["d1"].released_at > 0
    /\ shipments["d2"] = NoShipment
    /\ escrows["d2"].status = "funds_released" /\ escrows["d2"].released_at > 0

\* the audit records of the flush, to be written or written
FlushRecords == {tasks[i] : i \in DOMAIN tasks} \cup {audit_logs[i] : i \in DOMAIN audit_logs}

\* C24: the flush of an escrow object none of whose attributes changed has
\* created one audit task, an UPDATE record with an empty diff and the full
\* snapshot.
C24_EmptyUpdateRecorded ==
    \A p \in Procs :
        (pc[p] = "flushed_update" /\ sess[p].escrow = escrows[sess[p].deal])
        => /\ emitted[p] = 1
           /\ \A rec \in FlushRecords :
                /\ rec.action = "UPDATE"
                /\ DOMAIN rec.changes = {}
                /\ DOMAIN rec.snapshot = EscrowColumns

\* C25: the record of a flushed update names in its diff exactly the columns
\* whose value differs between the row and the object, each with the old and
\* the new value (for the transition a release makes: status, released_at,
\* released_by_id, and idempotency_key when a new key is set); the record of a
\* flushed insert has an empty diff and a snapshot of every column.
C25_DiffIsExactlyTheChanges ==
    \A p \in Procs : \A rec \in FlushRecords :
        LET old == escrows[sess[p].deal]
            new == sess[p].escrow
        IN  /\ pc[p] = "flushed_update"
               => /\ rec.action = "UPDATE"
                  /\ \A c \in EscrowColumns :
                        /\ c \in DOMAIN rec.changes <=> old[c] # new[c]
                        /\ c \in DOMAIN rec.changes
                           => /\ rec.changes[c].old = _serialize_value(c, old[c])
                              /\ rec.changes[c].new = _serialize_value(c, new[c])
                  /\ (old.status = "held" /\ old.released_by_id = NULL
                        /\ \E key \in Keys \cup {NULL} :
                              new = Released(old, 1, old.payer_id, key))
                     => DOMAIN rec.changes =
                            {"status", "released_at", "released_by_id"} \cup
                            (IF new.idempotency_key # old.idempotency_key
                             THEN {"idempotency_key"} ELSE {})
            /\ pc[p] = "flushed_insert"
               => /\ rec.action = "INSERT"
                  /\ DOMAIN rec.changes = {}
                  /\ DOMAIN rec.snapshot = EscrowColumns
                  /\ \A c \in EscrowColumns :
                        rec.snapshot[c] = _serialize_value(c, new[c])

\* the entry of a release transition that also set a key has been written
C25_Witness ==
    /\ pc["p1"] = "flushed_update"
    /\ Len(audit_logs) = 1
    /\ DOMAIN audit_logs[1].changes =
            {"status", "released_at", "released_by_id", "idempotency_key"}
    /\ audit_logs[1].changes["status"] = [old |-> "held", new |-> "funds_released"]
    /\ audit_logs[1].changes["idempotency_key"] = [old |-> NULL, new |-> "k1"]

\* the escrows a release of this run moved to FUNDS_RELEASED
ReleasedByRelease ==
    {d \in DealIds : escrows[d].status = "funds_released" /\ escrows[d].released_at > 0}

\* C26: the total of all stored balances (they start at zero) equals the sum
\* of the amounts of the escrows that release moved to FUNDS_RELEASED.
C26_BalancesConserveReleasedAmounts ==
    accounts["u1"].balance + accounts["u2"].balance
        + accounts["u3"].balance + accounts["u4"].balance
    = (IF "d1" \in ReleasedByRelease THEN escrows["d1"].amount ELSE 0)
        + (IF "d2" \in ReleasedByRelease THEN escrows["d2"].amount ELSE 0)

\* C27: every success result of a release names a deal that exists and
\* carries the escrow id, the deal number and the amount of that deal's escrow,
\* which is FUNDS_RELEASED.
C27_SuccessDescribesRequestedDeal ==
    \A p \in Procs :
        (pc[p] = "done" /\ req[p].pin # NULL /\ result[p].code = 200)
        => LET d == req[p].deal_id
           IN  /\ d \in DealIds
               /\ result[p].body.escrow_id = escrows[d].id
               /\ result[p].body.deal_number = deals[d].deal_number
               /\ result[p].body.amount = ToE4(escrows[d].amount)
               /\ escrows[d].status = "funds_released"

\* C28: after a successful release of an escrow (balances start at zero; the
\* producer and the driver are distinct accounts) the stored producer balance
\* plus the stored driver balance equals the escrow amount.
C28_StoredCreditsSumToAmount ==
    \A p \in Procs :
        (pc[p] = "done" /\ result[p].detail = "released" /\ calls = 1)
        => LET d == req[p].deal_id
           IN  accounts[deals[d].seller_id].balance + accounts[deals[d].driver_id].balance
                = escrows[d].amount

\* C29: every success result of a release was given for a PIN that matches
\* the PIN hash of the payer of the escrow the result describes.
C29_SuccessOnlyWithCorrectPin ==
    \A p \in Procs :
        (pc[p] = "done" /\ req[p].pin # NULL /\ result[p].code = 200)
        => \E d \in DealIds :
            /\ escrows[d].id = result[p].body.escrow_id
            /\ escrows[d].payer_id # NULL
            /\ accounts[escrows[d].payer_id].escrow_pin_hash # NULL
            /\ _verify_pin(req[p].pin, accounts[escrows[d].payer_id].escrow_pin_hash)

====
